---- MODULE Spec2Model ----
(***************************************************************************)
(* Field State Backup & Restore (src/__init__.py).                         *)
(*                                                                         *)
(* Text is a sequence of Unicode code points, bytes are a sequence of      *)
(* numbers 0..255.  The library conversions the handlers call (str.strip,  *)
(* str.lower, json.dumps, str.encode, base64.b64encode, BeautifulSoup      *)
(* get_text, base64.b64decode, bytes.decode, json.loads) are computed      *)
(* character by character, so that a payload written by backup is decoded  *)
(* by restore the way the program decodes it.                              *)
(***************************************************************************)
EXTENDS Integers, Sequences, FiniteSets, TLC

(***************************************************************************)
(* Text primitives.                                                        *)
(***************************************************************************)

\* str.isspace() of one code point (the Unicode White_Space code points
\* plus the four information separators 28..31).
IsSpace(c) ==
    \/ c \in 9..13
    \/ c \in 28..32
    \/ c \in {133, 160, 5760, 8232, 8233, 8239, 8287, 12288}
    \/ c \in 8192..8202

\* The first index from i on that marks (a sequence of booleans) marks, or
\* Len(marks) + 1.
NextIndex(marks, i) ==
    CHOOSE p \in i..(Len(marks) + 1) :
        /\ p > Len(marks) \/ marks[p]
        /\ \A k \in i..(p - 1) : ~marks[k]

\* str.strip()
strip(s) ==
    LET first == NextIndex([k \in 1..Len(s) |-> ~IsSpace(s[k])], 1) IN
    IF first > Len(s) THEN <<>>
    ELSE LET last == CHOOSE q \in first..Len(s) :
                        ~IsSpace(s[q]) /\ \A k \in (q + 1)..Len(s) : IsSpace(s[k])
         IN SubSeq(s, first, last)

\* The truth value of `content and content.strip()` (lines 66 and 110).
NonBlank(s) == s # <<>> /\ strip(s) # <<>>

\* str.lower() of one code point, for ASCII and Latin-1 letters.
LowerChar(c) ==
    IF c \in 65..90 THEN c + 32
    ELSE IF c \in 192..222 /\ c # 215 THEN c + 32
    ELSE c

\* str.lower()
lower(s) == [i \in 1..Len(s) |-> LowerChar(s[i])]

RECURSIVE Concat(_)
Concat(ss) ==
    IF Len(ss) = 0 THEN <<>>
    ELSE IF Len(ss) = 1 THEN ss[1]
    ELSE LET h == Len(ss) \div 2 IN
        Concat(SubSeq(ss, 1, h)) \o Concat(SubSeq(ss, h + 1, Len(ss)))

\* Whether text p occurs in text s at position i.
StartsAt(s, i, p) ==
    /\ i + Len(p) - 1 <= Len(s)
    /\ \A k \in 1..Len(p) : s[i + k - 1] = p[k]

(***************************************************************************)
(* json.dumps(backup_data, ensure_ascii=False) for a list of               *)
(* {"field": str, "html": str} dicts (line 72).                            *)
(***************************************************************************)

HexDigit(n) == IF n < 10 THEN 48 + n ELSE 87 + n

\* json.encoder.encode_basestring: one character of a string literal.
EscapeChar(c) ==
    CASE c = 34 -> <<92, 34>>
      [] c = 92 -> <<92, 92>>
      [] c = 8  -> <<92, 98>>
      [] c = 12 -> <<92, 102>>
      [] c = 10 -> <<92, 110>>
      [] c = 13 -> <<92, 114>>
      [] c = 9  -> <<92, 116>>
      [] c < 32 /\ c \notin {8, 9, 10, 12, 13} ->
            <<92, 117, 48, 48, HexDigit(c \div 16), HexDigit(c % 16)>>
      [] OTHER -> <<c>>

JsonString(s) == <<34>> \o Concat([i \in 1..Len(s) |-> EscapeChar(s[i])]) \o <<34>>

\* The item keys, as the source spells them: "field" and "html".
KeyField == <<102, 105, 101, 108, 100>>
KeyHtml == <<104, 116, 109, 108>>

\* {"field": <name>, "html": <content>}
JsonItem(item) ==
    <<123>> \o JsonString(KeyField) \o <<58, 32>> \o JsonString(item.field)
            \o <<44, 32>> \o JsonString(KeyHtml) \o <<58, 32>> \o JsonString(item.html)
            \o <<125>>

RECURSIVE JsonItems(_)
JsonItems(items) ==
    IF items = <<>> THEN <<>>
    ELSE IF Len(items) = 1 THEN JsonItem(items[1])
    ELSE JsonItem(items[1]) \o <<44, 32>> \o JsonItems(Tail(items))

json_dumps(items) == <<91>> \o JsonItems(items) \o <<93>>

(***************************************************************************)
(* str.encode('utf-8') and bytes.decode('utf-8') (lines 73 and 116).       *)
(* A result is [ok, v]: ok is FALSE where Python raises.                   *)
(***************************************************************************)

IsSurrogate(c) == c \in 55296..57343

Utf8Char(c) ==
    IF c < 128 THEN <<c>>
    ELSE IF c < 2048 THEN <<192 + (c \div 64), 128 + (c % 64)>>
    ELSE IF c < 65536 THEN
        <<224 + (c \div 4096), 128 + ((c \div 64) % 64), 128 + (c % 64)>>
    ELSE <<240 + (c \div 262144), 128 + ((c \div 4096) % 64),
           128 + ((c \div 64) % 64), 128 + (c % 64)>>

utf8_encode(s) ==
    IF \E i \in 1..Len(s) : IsSurrogate(s[i])
    THEN [ok |-> FALSE, v |-> <<>>]
    ELSE [ok |-> TRUE, v |-> Concat([i \in 1..Len(s) |-> Utf8Char(s[i])])]

IsCont(b, i) == i <= Len(b) /\ b[i] \in 128..191

\* The decoder, from byte i on: a run of ASCII bytes, then one multi-byte
\* character, and so on.
RECURSIVE Utf8Dec(_, _, _)
Utf8Dec(b, i, acc) ==
    LET p == NextIndex([k \in 1..Len(b) |-> b[k] >= 128], i)
        run == acc \o SubSeq(b, i, p - 1)
    IN
    IF p > Len(b) THEN [ok |-> TRUE, v |-> run]
    ELSE LET c == b[p] IN
      IF c \in 194..223 /\ IsCont(b, p + 1) THEN
        Utf8Dec(b, p + 2, Append(run, (c - 192) * 64 + (b[p + 1] - 128)))
      ELSE IF /\ c \in 224..239 /\ IsCont(b, p + 1) /\ IsCont(b, p + 2)
              /\ (c = 224 => b[p + 1] >= 160)
              /\ (c = 237 => b[p + 1] <= 159) THEN
        Utf8Dec(b, p + 3, Append(run, (c - 224) * 4096 + (b[p + 1] - 128) * 64
                                        + (b[p + 2] - 128)))
      ELSE IF /\ c \in 240..244 /\ IsCont(b, p + 1) /\ IsCont(b, p + 2)
              /\ IsCont(b, p + 3)
              /\ (c = 240 => b[p + 1] >= 144)
              /\ (c = 244 => b[p + 1] <= 143) THEN
        Utf8Dec(b, p + 4, Append(run, (c - 240) * 262144 + (b[p + 1] - 128) * 4096
                                        + (b[p + 2] - 128) * 64 + (b[p + 3] - 128)))
      ELSE [ok |-> FALSE, v |-> <<>>]

utf8_decode(b) == Utf8Dec(b, 1, <<>>)

(***************************************************************************)
(* base64.b64encode(...).decode('ascii') and base64.b64decode (lines 73    *)
(* and 116).                                                               *)
(***************************************************************************)

\* The base64 alphabet: value 0..63 to character, and back (64: no digit).
B64Char(n) ==
    IF n < 26 THEN 65 + n
    ELSE IF n < 52 THEN 97 + (n - 26)
    ELSE IF n < 62 THEN 48 + (n - 52)
    ELSE IF n = 62 THEN 43 ELSE 47

B64Value(c) ==
    IF c \in 65..90 THEN c - 65
    ELSE IF c \in 97..122 THEN c - 97 + 26
    ELSE IF c \in 48..57 THEN c - 48 + 52
    ELSE IF c = 43 THEN 62
    ELSE IF c = 47 THEN 63
    ELSE 64

\* Byte i of b, or 0 past its end.
ByteAt(b, i) == IF i <= Len(b) THEN b[i] ELSE 0

\* base64.b64encode: character k of the output.  Every three bytes give
\* four characters; a last group of one or two bytes is padded with "=".
B64OutChar(b, k) ==
    LET g == 3 * ((k - 1) \div 4)
        b1 == ByteAt(b, g + 1)
        b2 == ByteAt(b, g + 2)
        b3 == ByteAt(b, g + 3)
    IN CASE (k - 1) % 4 = 0 -> B64Char(b1 \div 4)
         [] (k - 1) % 4 = 1 -> B64Char((b1 % 4) * 16 + (b2 \div 16))
         [] (k - 1) % 4 = 2 ->
                IF g + 2 > Len(b) THEN 61 ELSE B64Char((b2 % 16) * 4 + (b3 \div 64))
         [] OTHER -> IF g + 3 > Len(b) THEN 61 ELSE B64Char(b3 % 64)

b64encode(b) == [k \in 1..(4 * ((Len(b) + 2) \div 3)) |-> B64OutChar(b, k)]

IsDigit64(c) == B64Value(c) < 64

\* binascii.a2b_base64 without strict mode reads the characters in order:
\* a character outside the alphabet is skipped; quad_pos is the number of
\* digits read so far modulo 4; a "=" read with quad_pos >= 2 counts as a
\* pad, and the pad that completes the quad ends the input (what follows is
\* not read); a digit resets the pad count.  PadStop(s, i) says that the
\* "=" at i is that pad.
DigitsBefore(s, i) == Cardinality({j \in 1..(i - 1) : IsDigit64(s[j])})

PadsUpTo(s, i) ==
    Cardinality({j \in 1..i :
        s[j] = 61 /\ \A k \in (j + 1)..(i - 1) : ~IsDigit64(s[k])})

PadStop(s, i) ==
    /\ s[i] = 61
    /\ DigitsBefore(s, i) % 4 >= 2
    /\ (DigitsBefore(s, i) % 4) + PadsUpTo(s, i) >= 4

\* Byte k of the output, from the digits d: four digits give three bytes, a
\* last group of two or three digits gives one or two.
A2bByte(d, k) ==
    LET g == 4 * ((k - 1) \div 3) IN
    CASE (k - 1) % 3 = 0 -> d[g + 1] * 4 + (d[g + 2] \div 16)
      [] (k - 1) % 3 = 1 -> (d[g + 2] % 16) * 16 + (d[g + 3] \div 4)
      [] OTHER -> (d[g + 3] % 4) * 64 + d[g + 4]

\* Leftover digits without their pads raise binascii.Error.
a2b_base64(s) ==
    LET stops == {i \in 1..Len(s) : PadStop(s, i)}
        end == IF stops = {} THEN Len(s)
               ELSE CHOOSE i \in stops : \A j \in stops : i <= j
        read == SelectSeq(SubSeq(s, 1, end), IsDigit64)
        d == [k \in 1..Len(read) |-> B64Value(read[k])]
        n == 3 * (Len(d) \div 4)
             + (IF Len(d) % 4 = 2 THEN 1 ELSE IF Len(d) % 4 = 3 THEN 2 ELSE 0)
    IN IF stops = {} /\ Len(d) % 4 # 0 THEN [ok |-> FALSE, v |-> <<>>]
       ELSE [ok |-> TRUE, v |-> [k \in 1..n |-> A2bByte(d, k)]]

\* base64.b64decode(str): the text must be ASCII (ValueError otherwise).
b64decode(s) ==
    IF \E i \in 1..Len(s) : s[i] >= 128
    THEN [ok |-> FALSE, v |-> <<>>]
    ELSE a2b_base64(s)

(***************************************************************************)
(* json.loads (line 117).  A JSON value is [t, v]: t is "str" (v the       *)
(* text), "num" or "lit" (v the lexeme; "lit" is true, false, null, NaN    *)
(* or an infinity), "arr" (v the items) or "obj" (v the members [k, val]   *)
(* in document order).  A parse result is [ok, val, pos].                  *)
(***************************************************************************)

JNone == [t |-> "lit", v |-> <<110, 117, 108, 108>>]
JFail == [ok |-> FALSE, val |-> JNone, pos |-> 0]
JOk(type, value, next) == [ok |-> TRUE, val |-> [t |-> type, v |-> value], pos |-> next]

RECURSIVE SkipWs(_, _)
SkipWs(s, i) ==
    IF i <= Len(s) /\ s[i] \in {32, 9, 10, 13} THEN SkipWs(s, i + 1) ELSE i

HexVal(c) ==
    IF c \in 48..57 THEN c - 48
    ELSE IF c \in 97..102 THEN c - 87
    ELSE IF c \in 65..70 THEN c - 55
    ELSE 16

\* The value of the four hex digits at i, or -1.
Hex4(s, i) ==
    IF i + 3 <= Len(s) /\ \A k \in 0..3 : HexVal(s[i + k]) < 16
    THEN HexVal(s[i]) * 4096 + HexVal(s[i + 1]) * 256
         + HexVal(s[i + 2]) * 16 + HexVal(s[i + 3])
    ELSE -1

\* The character a backslash escape stands for, or -1.
Unescape(e) ==
    CASE e = 34 -> 34 [] e = 92 -> 92 [] e = 47 -> 47 [] e = 98 -> 8
      [] e = 102 -> 12 [] e = 110 -> 10 [] e = 114 -> 13 [] e = 116 -> 9
      [] OTHER -> -1

\* A character that ends a run of plain characters in a string literal: the
\* closing quote, a backslash, or a control character (an error).
NotPlain(c) == c = 34 \/ c = 92 \/ c < 32

\* json.decoder.scanstring (strict): i is the position after the opening
\* quote, or after the part of the literal read so far.
RECURSIVE ScanString(_, _, _)
ScanString(s, i, acc) ==
    LET p == NextIndex([k \in 1..Len(s) |-> NotPlain(s[k])], i)
        run == acc \o SubSeq(s, i, p - 1)
    IN
    IF p > Len(s) THEN JFail
    ELSE IF s[p] = 34 THEN JOk("str", run, p + 1)
    ELSE IF s[p] < 32 THEN JFail
    ELSE IF p + 1 > Len(s) THEN JFail
    ELSE IF s[p + 1] = 117 THEN
        LET u == Hex4(s, p + 2) IN
        IF u < 0 THEN JFail
        ELSE IF /\ u \in 55296..56319
                /\ StartsAt(s, p + 6, <<92, 117>>)
                /\ Hex4(s, p + 8) \in 56320..57343
        THEN ScanString(s, p + 12,
                 Append(run, 65536 + (u - 55296) * 1024 + (Hex4(s, p + 8) - 56320)))
        ELSE ScanString(s, p + 6, Append(run, u))
    ELSE IF Unescape(s[p + 1]) < 0 THEN JFail
    ELSE ScanString(s, p + 2, Append(run, Unescape(s[p + 1])))

RECURSIVE Digits(_, _)
Digits(s, i) == IF i <= Len(s) /\ s[i] \in 48..57 THEN Digits(s, i + 1) ELSE i

\* The end of the number -?(0|[1-9]\d*)(\.\d+)?([eE][-+]?\d+)? at i, or 0.
NumberEnd(s, i) ==
    LET j == IF i <= Len(s) /\ s[i] = 45 THEN i + 1 ELSE i
        k == IF j > Len(s) THEN 0
             ELSE IF s[j] = 48 THEN j + 1
             ELSE IF s[j] \in 49..57 THEN Digits(s, j)
             ELSE 0
        f == IF k > 0 /\ k <= Len(s) /\ s[k] = 46 /\ Digits(s, k + 1) > k + 1
             THEN Digits(s, k + 1) ELSE k
        x == IF f > 0 /\ f <= Len(s) /\ s[f] \in {101, 69}
             THEN IF f + 1 <= Len(s) /\ s[f + 1] \in {43, 45} THEN f + 2 ELSE f + 1
             ELSE 0
    IN IF k = 0 THEN 0
       ELSE IF x > 0 /\ Digits(s, x) > x THEN Digits(s, x)
       ELSE f

\* The literals of json.scanner, in the order it tries them around numbers.
LitNull == <<110, 117, 108, 108>>
LitTrue == <<116, 114, 117, 101>>
LitFalse == <<102, 97, 108, 115, 101>>
LitNaN == <<78, 97, 78>>
LitInfinity == <<73, 110, 102, 105, 110, 105, 116, 121>>

ScanAtom(s, i) ==
    IF StartsAt(s, i, LitNull) THEN JOk("lit", LitNull, i + 4)
    ELSE IF StartsAt(s, i, LitTrue) THEN JOk("lit", LitTrue, i + 4)
    ELSE IF StartsAt(s, i, LitFalse) THEN JOk("lit", LitFalse, i + 5)
    ELSE IF NumberEnd(s, i) > 0
        THEN JOk("num", SubSeq(s, i, NumberEnd(s, i) - 1), NumberEnd(s, i))
    ELSE IF StartsAt(s, i, LitNaN) THEN JOk("lit", LitNaN, i + 3)
    ELSE IF StartsAt(s, i, LitInfinity) THEN JOk("lit", LitInfinity, i + 8)
    ELSE IF StartsAt(s, i, <<45>> \o LitInfinity)
        THEN JOk("lit", <<45>> \o LitInfinity, i + 9)
    ELSE JFail

RECURSIVE ScanValue(_, _)
RECURSIVE ScanArray(_, _, _)
RECURSIVE ScanObject(_, _, _)

\* json.scanner: the value that starts at i.
ScanValue(s, i) ==
    IF i > Len(s) THEN JFail
    ELSE IF s[i] = 34 THEN ScanString(s, i + 1, <<>>)
    ELSE IF s[i] = 123 THEN
        LET j == SkipWs(s, i + 1) IN
        IF j <= Len(s) /\ s[j] = 125 THEN JOk("obj", <<>>, j + 1)
        ELSE ScanObject(s, j, <<>>)
    ELSE IF s[i] = 91 THEN
        LET j == SkipWs(s, i + 1) IN
        IF j <= Len(s) /\ s[j] = 93 THEN JOk("arr", <<>>, j + 1)
        ELSE ScanArray(s, j, <<>>)
    ELSE ScanAtom(s, i)

\* json.decoder.JSONArray: i is where the next item starts.
ScanArray(s, i, acc) ==
    LET r == ScanValue(s, i) IN
    IF ~r.ok THEN JFail
    ELSE LET j == SkipWs(s, r.pos) IN
        IF j > Len(s) THEN JFail
        ELSE IF s[j] = 93 THEN JOk("arr", Append(acc, r.val), j + 1)
        ELSE IF s[j] = 44 THEN ScanArray(s, SkipWs(s, j + 1), Append(acc, r.val))
        ELSE JFail

\* json.decoder.JSONObject: i is where the next member's key must start.
ScanObject(s, i, acc) ==
    IF i > Len(s) \/ s[i] # 34 THEN JFail
    ELSE LET key == ScanString(s, i + 1, <<>>) IN
      IF ~key.ok THEN JFail
      ELSE LET c == SkipWs(s, key.pos) IN
        IF c > Len(s) \/ s[c] # 58 THEN JFail
        ELSE LET r == ScanValue(s, SkipWs(s, c + 1)) IN
          IF ~r.ok THEN JFail
          ELSE LET j == SkipWs(s, r.pos)
                   m == Append(acc, [k |-> key.val.v, val |-> r.val])
               IN IF j > Len(s) THEN JFail
                  ELSE IF s[j] = 125 THEN JOk("obj", m, j + 1)
                  ELSE IF s[j] = 44 THEN ScanObject(s, SkipWs(s, j + 1), m)
                  ELSE JFail

\* json.loads(str): one value, whitespace around it, nothing else.
json_loads(s) ==
    IF s # <<>> /\ s[1] = 65279 THEN JFail
    ELSE LET r == ScanValue(s, SkipWs(s, 1)) IN
        IF r.ok /\ SkipWs(s, r.pos) = Len(s) + 1 THEN r ELSE JFail

\* dict.get(key, default): the last member with that key wins.
RECURSIVE DictGet(_, _, _)
DictGet(members, key, default) ==
    IF members = <<>> THEN default
    ELSE IF members[Len(members)].k = key THEN members[Len(members)].val
    ELSE DictGet(SubSeq(members, 1, Len(members) - 1), key, default)

(***************************************************************************)
(* BeautifulSoup(cache_content, "html.parser").get_text() (lines 112-113), *)
(* for content made of text and element tags: a tag runs from "<" followed *)
(* by a letter, or by "/" and a letter, to the next ">"; everything else   *)
(* is text.                                                                *)
(***************************************************************************)

IsLetter(c) == c \in 65..90 \/ c \in 97..122

TagEnd(s, i) ==
    IF /\ s[i] = 60
       /\ \/ i + 1 <= Len(s) /\ IsLetter(s[i + 1])
          \/ i + 2 <= Len(s) /\ s[i + 1] = 47 /\ IsLetter(s[i + 2])
       /\ \E j \in (i + 1)..Len(s) : s[j] = 62
    THEN CHOOSE j \in (i + 1)..Len(s) :
            s[j] = 62 /\ \A k \in (i + 1)..(j - 1) : s[k] # 62
    ELSE 0

\* The text from i on: the characters up to the next tag, then the text
\* after that tag.
RECURSIVE TextFrom(_, _, _)
TextFrom(s, i, acc) ==
    LET p == CHOOSE q \in i..(Len(s) + 1) :
                /\ q > Len(s) \/ TagEnd(s, q) > 0
                /\ \A k \in i..(q - 1) : TagEnd(s, k) = 0
        run == acc \o SubSeq(s, i, p - 1)
    IN IF p > Len(s) THEN run ELSE TextFrom(s, TagEnd(s, p) + 1, run)

get_text(s) == TextFrom(s, 1, <<>>)

(***************************************************************************)
(* The editor, its note and the add-on's configuration.                    *)
(***************************************************************************)

VARIABLES
    notetype,               \* editor.note.model()['name']
    field_names,            \* mw.col.models.field_names(model), schema order
    ignored_fields_config,  \* config "ignored_backup_fields"
    addMode,                \* editor.addMode
    has_note,               \* whether editor.note is set
    note,                   \* note.fields: the content of each field, by index
    col_note,               \* the note as the collection stores it (<<>>: not stored)
    hist                    \* the handler runs since the last edit, newest last

vars == <<notetype, field_names, ignored_fields_config, addMode, has_note,
          note, col_note, hist>>

\* How many handler runs hist keeps.
HistLen == 3

\* Field names.  "Cache" is the name the source reads and writes (line 57).
Cache == <<67, 97, 99, 104, 101>>
Title == <<84, 105, 116, 108, 101>>
Front == <<70, 114, 111, 110, 116>>
Image == <<73, 109, 97, 103, 101>>
Back == <<66, 97, 99, 107>>

\* The schemas of the model: one with a Cache field, one without.
Schemas == {<<Title, Front, Image, Cache>>, <<Title, Front>>}

\* config "enabled_notetypes" (line 30), and the note types of the model.
enabled_notetypes == <<"Basic">>
Notetypes == {"Basic", "Cloze"}

\* config "ignored_backup_fields": the default of line 31 (image, cache), a
\* list naming only the cache field in capitals (CACHE), and a list that
\* does not name the cache field (Image).
IgnoreLists ==
    { << <<105, 109, 97, 103, 101>>, <<99, 97, 99, 104, 101>> >>,
      << <<67, 65, 67, 72, 69>> >>,
      << Image >> }

\* Line 33.
ignored_fields_lower ==
    [k \in 1..Len(ignored_fields_config) |-> lower(ignored_fields_config[k])]

InList(x, list) == \E k \in 1..Len(list) : list[k] = x

\* note[field_name]: the index of a field of the schema.
FieldIndex(name) == CHOOSE i \in 1..Len(field_names) : field_names[i] = name

(***************************************************************************)
(* What a handler run does, in order: a sequence of steps.  A "set" step   *)
(* is note[field] = value; the others are calls.                           *)
(***************************************************************************)

SetStep(name, text) == [e |-> "set", field |-> name, value |-> text]
CallStep(what) == [e |-> what, field |-> <<>>, value |-> <<>>]

\* Line 79-81 and 125-127: persist unless in add mode, then reload the editor.
FinishSteps ==
    (IF ~addMode THEN <<CallStep("update_note")>> ELSE <<>>) \o <<CallStep("loadNote")>>

\* Eligible with the ignore-list compared as configured, not lower-cased.
EligibleConfigNotLowered(i) ==
    ~(i = 1 \/ InList(lower(field_names[i]), ignored_fields_config))

\* Lines 62-64: the index is past the first field and the lower-cased name
\* is not in the lower-cased ignore-list.  Index 1 here is Python's index 0.
Eligible(i) ==
    ~(i = 1 \/ InList(lower(field_names[i]), ignored_fields_lower))

\* Lines 61-68: backup_data (fields_to_clear holds the same names).
RECURSIVE BackupData(_, _)
BackupData(n, i) ==
    IF i > Len(field_names) THEN <<>>
    ELSE IF Eligible(i) /\ NonBlank(n[i])
        THEN <<[field |-> field_names[i], html |-> n[i]]>> \o BackupData(n, i + 1)
    ELSE BackupData(n, i + 1)

backup_data(n) == BackupData(n, 1)

\* Line 74: the envelope around the base64 text.
Envelope(b64) == <<60, 100, 105, 118, 62>> \o b64 \o <<60, 47, 100, 105, 118, 62>>

\* Lines 76-77.
ClearSteps(items) == [k \in 1..Len(items) |-> SetStep(items[k].field, <<>>)]

\* Lines 72-81: the writes of a backup, given what line 73 produced.
BackupWrites(items, bytes) ==
    <<SetStep(Cache, Envelope(b64encode(bytes)))>> \o ClearSteps(items) \o FinishSteps

\* do_backup without the return of line 70: an empty payload is written.
do_backup_without_return(n) ==
    IF ~InList(Cache, field_names) THEN <<CallStep("log.warning")>>
    ELSE LET items == backup_data(n)
             enc == utf8_encode(json_dumps(items))
         IN IF ~enc.ok THEN <<CallStep("log.error")>>
            ELSE BackupWrites(items, enc.v)

\* _do_backup, lines 50-83.
do_backup(n) ==
    IF ~InList(Cache, field_names) THEN <<CallStep("log.warning")>>
    ELSE LET items == backup_data(n) IN
        IF items = <<>> THEN <<>>
        ELSE LET enc == utf8_encode(json_dumps(items)) IN
            IF ~enc.ok THEN <<CallStep("log.error")>>
            ELSE BackupWrites(items, enc.v)

\* Lines 119: what `for item in backup_data` iterates over.  A list yields
\* its items, a dict its keys, a string its characters; anything else is
\* not iterable (TypeError).
Iterable(val) == val.t \in {"arr", "obj", "str"}

LoopItems(val) ==
    CASE val.t = "arr" -> val.v
      [] val.t = "obj" -> [k \in 1..Len(val.v) |-> [t |-> "str", v |-> val.v[k].k]]
      [] val.t = "str" -> [k \in 1..Len(val.v) |-> [t |-> "str", v |-> <<val.v[k]>>]]

\* Line 121: field_name is truthy and names a field of the schema.
Applies(field_name) ==
    /\ field_name.t = "str"
    /\ field_name.v # <<>>
    /\ InList(field_name.v, field_names)

\* Line 122, for an item whose html is a string or missing (the payloads of
\* the model hold no other html).
ItemWrite(item) ==
    LET field_html == DictGet(item.v, KeyHtml, [t |-> "str", v |-> <<>>]) IN
    CASE field_html.t = "str" ->
        SetStep(DictGet(item.v, KeyField, JNone).v, field_html.v)

\* RestoreLoop that leaves the loop at the first item it does not apply.
RECURSIVE RestoreLoopStopsAtUnknown(_, _)
RestoreLoopStopsAtUnknown(items, k) ==
    IF k > Len(items) THEN [ok |-> TRUE, steps |-> <<>>]
    ELSE IF items[k].t # "obj" THEN [ok |-> FALSE, steps |-> <<>>]
    ELSE IF ~Applies(DictGet(items[k].v, KeyField, JNone))
        THEN [ok |-> TRUE, steps |-> <<>>]
    ELSE LET rest == RestoreLoopStopsAtUnknown(items, k + 1) IN
        [ok |-> rest.ok, steps |-> <<ItemWrite(items[k])>> \o rest.steps]

\* RestoreLoop that applies the first item only.
RestoreLoopFirstOnly(items, k) ==
    IF k > Len(items) THEN [ok |-> TRUE, steps |-> <<>>]
    ELSE IF items[k].t # "obj" THEN [ok |-> FALSE, steps |-> <<>>]
    ELSE [ok |-> TRUE,
          steps |-> IF Applies(DictGet(items[k].v, KeyField, JNone))
                    THEN <<ItemWrite(items[k])>> ELSE <<>>]

\* Lines 119-122: the loop.  item.get raises AttributeError on an item that
\* is not a dict, after the writes of the items before it.
RECURSIVE RestoreLoop(_, _)
RestoreLoop(items, k) ==
    IF k > Len(items) THEN [ok |-> TRUE, steps |-> <<>>]
    ELSE IF items[k].t # "obj" THEN [ok |-> FALSE, steps |-> <<>>]
    ELSE LET rest == RestoreLoop(items, k + 1)
             here == IF Applies(DictGet(items[k].v, KeyField, JNone))
                     THEN <<ItemWrite(items[k])>> ELSE <<>>
         IN [ok |-> rest.ok, steps |-> here \o rest.steps]

\* Lines 119-127, given the parsed payload.
RestoreWrites(val) ==
    IF ~Iterable(val) THEN <<CallStep("log.error")>>
    ELSE LET loop == RestoreLoop(LoopItems(val), 1) IN
        IF ~loop.ok THEN loop.steps \o <<CallStep("log.error")>>
        ELSE loop.steps \o <<SetStep(Cache, <<>>)>> \o FinishSteps

\* Lines 112-117: the payload in the cache content, [ok, val].
DecodeCache(cache_content) ==
    LET raw == b64decode(strip(get_text(cache_content))) IN
    IF ~raw.ok THEN JFail
    ELSE LET json_string == utf8_decode(raw.v) IN
        IF ~json_string.ok THEN JFail ELSE json_loads(json_string.v)

\* _do_restore, lines 99-129.
do_restore(n) ==
    IF ~InList(Cache, field_names) THEN <<CallStep("log.warning")>>
    ELSE LET cache_content == n[FieldIndex(Cache)] IN
        IF ~NonBlank(cache_content) THEN <<>>
        ELSE IF strip(get_text(cache_content)) = <<>> THEN <<>>
        ELSE LET data == DecodeCache(cache_content) IN
            IF ~data.ok THEN <<CallStep("log.error")>>
            ELSE RestoreWrites(data.val)

\* Lines 38-45 and 87-94: the guard both click handlers start with.
Guarded(steps) ==
    IF ~has_note THEN <<>>
    ELSE IF ~InList(notetype, enabled_notetypes) THEN <<CallStep("showInfo")>>
    ELSE steps

\* The note and the stored note after the steps of a run.
RECURSIVE Run(_, _, _)
Run(steps, n, stored) ==
    IF steps = <<>> THEN [note |-> n, col |-> stored]
    ELSE LET st == Head(steps) IN
        CASE st.e = "set" ->
                Run(Tail(steps), [n EXCEPT ![FieldIndex(st.field)] = st.value], stored)
          [] st.e = "update_note" -> Run(Tail(steps), n, n)
          [] OTHER -> Run(Tail(steps), n, stored)

Push(h, entry) ==
    IF Len(h) < HistLen THEN Append(h, entry) ELSE Append(Tail(h), entry)

\* Whether the record is as a completed backup has just left it: the last
\* run since the last edit was a backup that wrote its payload, and the
\* payload is still in the Cache field.
FreshBackup ==
    /\ hist # <<>>
    /\ hist[Len(hist)].op = "backup"
    /\ hist[Len(hist)].steps # <<>>
    /\ hist[Len(hist)].steps[Len(hist[Len(hist)].steps)].e = "loadNote"
    /\ NonBlank(note[FieldIndex(Cache)])

\* A handler run: its steps take effect, and hist records the run with the
\* record and the stored note it started from.
Handle(op, steps) ==
    /\ note' = Run(steps, note, col_note).note
    /\ col_note' = Run(steps, note, col_note).col
    /\ hist' = Push(hist, [op |-> op, pre |-> note, col |-> col_note,
                           fresh |-> FreshBackup, steps |-> steps])
    /\ UNCHANGED <<notetype, field_names, ignored_fields_config, addMode, has_note>>

\* on_backup_fields, lines 36-48 (editor.saveNow runs _do_backup).
on_backup_fields == Handle("backup", Guarded(do_backup(note)))

\* on_restore_fields, lines 85-97 (editor.saveNow runs _do_restore).
on_restore_fields == Handle("restore", Guarded(do_restore(note)))

(***************************************************************************)
(* The user's edits.  Any field may receive typed content; the Cache field *)
(* may also receive a payload from elsewhere (an older backup, a payload   *)
(* written under another schema, a damaged one).                           *)
(***************************************************************************)

\* "e-acute, quote": content that needs UTF-8 and JSON escaping.
Accented == <<233, 34>>

Contents == {<<>>, <<32>>, <<97>>, Accented}

Payload(text) == Envelope(b64encode(utf8_encode(text).v))

\* [{"field": "Front", "html": "a"}, {"field": "Back", "html": "a"}, {"field": "Image"}]
\* : an item for a field the schema no longer has, and an item without html.
PayloadUnknown ==
    Payload(<<91>> \o JsonItem([field |-> Front, html |-> <<97>>]) \o <<44, 32>>
            \o JsonItem([field |-> Back, html |-> <<97>>]) \o <<44, 32>>
            \o <<123>> \o JsonString(KeyField) \o <<58, 32>> \o JsonString(Image)
            \o <<125, 93>>)

\* [{"field": "Front", "html": "a"}, 5]: a well-formed item, then a number.
PayloadBadItem ==
    Payload(<<91>> \o JsonItem([field |-> Front, html |-> <<97>>])
            \o <<44, 32, 53, 93>>)

\* [{"field": "Title", "html": "a"}]: an item that names the first field.
PayloadTitle == Payload(json_dumps(<<[field |-> Title, html |-> <<97>>]>>))

\* <div>not-valid-base64!!</div>
NotBase64 ==
    Envelope(<<110, 111, 116, 45, 118, 97, 108, 105, 100, 45, 98, 97, 115, 101,
               54, 52, 33, 33>>)

\* <div><b>...</b><br></div> around the payload [{"field": "Front", "html": "a"}]
PayloadInMarkup ==
    Envelope(<<60, 98, 62>>
             \o b64encode(utf8_encode(json_dumps(<<[field |-> Front, html |-> <<97>>]>>)).v)
             \o <<60, 47, 98, 62, 60, 98, 114, 62>>)

\* <br>: markup without text.
OnlyMarkup == <<60, 98, 114, 62>>

\* [{"field": "Front"  (base64 of JSON cut short)
PayloadCut ==
    Payload(<<91, 123>> \o JsonString(KeyField) \o <<58, 32>> \o JsonString(Front))

CacheContents ==
    {PayloadUnknown, PayloadBadItem, PayloadTitle, NotBase64, PayloadInMarkup,
     OnlyMarkup, PayloadCut}

\* The editor stores an edit in the note and, outside add mode, saves it.
EditField(i, text) ==
    /\ has_note
    /\ note[i] # text
    /\ note' = [note EXCEPT ![i] = text]
    /\ col_note' = IF addMode THEN col_note ELSE note'
    /\ hist' = <<>>
    /\ UNCHANGED <<notetype, field_names, ignored_fields_config, addMode, has_note>>

Init ==
    /\ notetype \in Notetypes
    /\ field_names \in Schemas
    /\ ignored_fields_config \in IgnoreLists
    /\ addMode \in BOOLEAN
    /\ has_note \in BOOLEAN
    /\ note = [i \in 1..Len(field_names) |-> <<>>]
    /\ col_note = IF addMode \/ ~has_note THEN <<>> ELSE note
    /\ hist = <<>>

Next ==
    \/ \E i \in 1..Len(field_names) :
         \E text \in Contents \cup (IF field_names[i] = Cache THEN CacheContents ELSE {}) :
            EditField(i, text)
    \/ on_backup_fields
    \/ on_restore_fields

Spec == Init /\ [][Next]_vars

(***************************************************************************)
(* Vocabulary of the properties.                                           *)
(***************************************************************************)

HasCache == InList(Cache, field_names)
CacheIndex == FieldIndex(Cache)
Supported == has_note /\ InList(notetype, enabled_notetypes)

HasStep(steps, what) == \E k \in 1..Len(steps) : steps[k].e = what
Completed(steps) == steps # <<>> /\ steps[Len(steps)].e = "loadNote"
Raised(steps) == HasStep(steps, "log.error")
Wrote(steps) == HasStep(steps, "set")

\* The latest run of hist, and the run before it when there are two.  A
\* run that is no longer the latest was the latest in an earlier state.
LatestRun == {Len(hist)} \ {0}
LatestPair == {Len(hist) - 1} \ {0, -1}

\* The record after run k of hist.
After(k) == IF k < Len(hist) THEN hist[k + 1].pre ELSE note

\* The exclusion rule as the specification words it: the field at index 0
\* (1 here), and a field whose lower-cased name equals a lower-cased entry
\* of the ignore-list.
Excluded(i) ==
    \/ i = 1
    \/ \E k \in 1..Len(ignored_fields_config) :
          lower(ignored_fields_config[k]) = lower(field_names[i])

ExcludedName(name) ==
    \E i \in 1..Len(field_names) : field_names[i] = name /\ Excluded(i)

\* The eligible non-blank fields of a record, and their items in field order.
Capturable(rec) ==
    {i \in 1..Len(field_names) : ~Excluded(i) /\ NonBlank(rec[i])}

Kth(S, k) == CHOOSE i \in S : Cardinality({j \in S : j < i}) = k - 1

ExpectedItems(rec) ==
    [k \in 1..Cardinality(Capturable(rec)) |->
        [field |-> field_names[Kth(Capturable(rec), k)],
         html |-> rec[Kth(Capturable(rec), k)]]]

\* A payload made of {"field": text, "html": text} items only.
IsItem(val) ==
    /\ val.t = "obj"
    /\ DictGet(val.v, KeyField, JNone).t = "str"
    /\ DictGet(val.v, KeyHtml, JNone).t = "str"

\* The items a cache content decodes to: [ok, items].
PayloadItems(content) ==
    LET d == DecodeCache(content) IN
    IF d.ok /\ d.val.t = "arr" /\ \A k \in 1..Len(d.val.v) : IsItem(d.val.v[k])
    THEN [ok |-> TRUE,
          items |-> [k \in 1..Len(d.val.v) |->
                        [field |-> DictGet(d.val.v[k].v, KeyField, JNone).v,
                         html |-> DictGet(d.val.v[k].v, KeyHtml, JNone).v]]]
    ELSE [ok |-> FALSE, items |-> <<>>]

ItemSet(items) == {items[k] : k \in 1..Len(items)}

(***************************************************************************)
(* C3.  Backup postcondition.                                              *)
(***************************************************************************)

\* A backup ran on a supported record with a Cache field and at least one
\* eligible non-blank field.
BackupRan(k) ==
    /\ hist[k].op = "backup"
    /\ Supported /\ HasCache
    /\ Capturable(hist[k].pre) # {}

\* C3: after a backup of a record with a Cache field and an eligible
\* non-blank field, whatever the ignore-list, the Cache field holds the
\* envelope-wrapped payload of exactly the eligible non-blank fields in
\* field order, each of those fields is empty, and every other non-Cache
\* field keeps its content.
BackupPostcondition ==
    \A k \in LatestRun :
        BackupRan(k) =>
            /\ After(k)[CacheIndex] =
                 Envelope(b64encode(utf8_encode(json_dumps(ExpectedItems(hist[k].pre))).v))
            /\ \A i \in 1..Len(field_names) :
                  field_names[i] # Cache =>
                     After(k)[i] = IF i \in Capturable(hist[k].pre)
                                   THEN <<>> ELSE hist[k].pre[i]

(***************************************************************************)
(* C1.  Round trip.                                                        *)
(***************************************************************************)

\* C1: backup and then restore, with no edit in between, of a supported
\* record with a Cache field and an eligible non-blank field: the payload
\* decodes to exactly the captured items in field order, every non-Cache
\* field has the content it had before the backup, and Cache is empty.
RoundTrip ==
    \A k \in LatestPair :
        (BackupRan(k) /\ hist[k + 1].op = "restore") =>
            /\ PayloadItems(After(k)[CacheIndex]) =
                 [ok |-> TRUE, items |-> ExpectedItems(hist[k].pre)]
            /\ \A i \in 1..Len(field_names) :
                  field_names[i] # Cache => After(k + 1)[i] = hist[k].pre[i]
            /\ After(k + 1)[CacheIndex] = <<>>

\* The round trip of C1 where the backup does not capture the Cache field
\* itself (Cache is excluded, or blank before the backup).
RoundTripCacheNotCaptured ==
    \A k \in LatestPair :
        (/\ BackupRan(k) /\ hist[k + 1].op = "restore"
         /\ CacheIndex \notin Capturable(hist[k].pre)) =>
            /\ PayloadItems(After(k)[CacheIndex]) =
                 [ok |-> TRUE, items |-> ExpectedItems(hist[k].pre)]
            /\ \A i \in 1..Len(field_names) :
                  field_names[i] # Cache => After(k + 1)[i] = hist[k].pre[i]
            /\ After(k + 1)[CacheIndex] = <<>>

RoundTripCacheNotCapturedWitness ==
    /\ Len(hist) >= 2
    /\ BackupRan(1) /\ hist[2].op = "restore"
    /\ CacheIndex \notin Capturable(hist[1].pre)
    /\ Cardinality(Capturable(hist[1].pre)) = 2

(***************************************************************************)
(* C2.  Restore is all-or-nothing.                                         *)
(***************************************************************************)

\* C2: a restore that fails at any step leaves every field of the record,
\* the Cache field included, as it was.
RestoreAllOrNothing ==
    \A k \in LatestRun :
        (hist[k].op = "restore" /\ Raised(hist[k].steps)) => After(k) = hist[k].pre

(***************************************************************************)
(* C4.  Exclusion correctness.                                             *)
(***************************************************************************)

\* C4: the first field and every field whose lower-cased name equals a
\* lower-cased ignore-list entry is never in the payload a backup writes
\* and never among the fields the backup clears.
ExclusionCorrectness ==
    \A k \in LatestRun :
        hist[k].op = "backup" =>
            \A j \in 1..Len(hist[k].steps) :
                LET st == hist[k].steps[j] IN
                st.e = "set" =>
                    IF st.value = <<>> THEN ~ExcludedName(st.field)
                    ELSE /\ st.field = Cache
                         /\ PayloadItems(st.value).ok
                         /\ \A item \in ItemSet(PayloadItems(st.value).items) :
                               ~ExcludedName(item.field)

\* A backup completed on a record whose first field and whose ignored
\* Image field (ignore-list entry "Image", in capitals) were both non-blank.
ExclusionWitness ==
    /\ hist # <<>>
    /\ hist[Len(hist)].op = "backup" /\ Completed(hist[Len(hist)].steps)
    /\ ignored_fields_config = << Image >>
    /\ NonBlank(hist[Len(hist)].pre[1])
    /\ NonBlank(hist[Len(hist)].pre[FieldIndex(Image)])

(***************************************************************************)
(* C5.  The title field and restore.                                       *)
(***************************************************************************)

\* A restore ran on a cache content that decodes to a payload.
RestoredPayload(k) ==
    /\ hist[k].op = "restore"
    /\ Supported /\ HasCache
    /\ PayloadItems(hist[k].pre[CacheIndex]).ok

NamesTitle(items) == \E k \in 1..Len(items) : items[k].field = field_names[1]

\* C5: for every cache content that decodes to a payload, the
\* content of the first field after restore equals its content before.
TitleNeverOverwritten ==
    \A k \in LatestRun :
        RestoredPayload(k) => After(k)[1] = hist[k].pre[1]

\* The part of C5 the code keeps: for every cache content that decodes to a
\* payload with no item naming the first field, the content of the first
\* field after restore equals its content before.
TitleKeptUnlessNamed ==
    \A k \in LatestRun :
        (/\ RestoredPayload(k)
         /\ ~NamesTitle(PayloadItems(hist[k].pre[CacheIndex]).items)) =>
            After(k)[1] = hist[k].pre[1]

\* A restore wrote a field from a payload that does not name the first
\* field, on a record whose first field was non-blank.
TitleKeptWitness ==
    /\ hist # <<>>
    /\ RestoredPayload(Len(hist))
    /\ ~NamesTitle(PayloadItems(hist[Len(hist)].pre[CacheIndex]).items)
    /\ Completed(hist[Len(hist)].steps)
    /\ Len(hist[Len(hist)].steps) >= 3
    /\ NonBlank(hist[Len(hist)].pre[1])

(***************************************************************************)
(* C6.  Unknown-field drop on restore.                                     *)
(***************************************************************************)

\* The html of the last item of a payload that names field name.
RECURSIVE LastHtml(_, _)
LastHtml(items, name) ==
    IF items[Len(items)].field = name THEN items[Len(items)].html
    ELSE LastHtml(SubSeq(items, 1, Len(items) - 1), name)

\* A payload whose items are dicts with a text "field" and a text or
\* missing "html": [ok, items], a missing html read as the empty text.
IsLooseItem(val) ==
    /\ val.t = "obj"
    /\ DictGet(val.v, KeyField, JNone).t = "str"
    /\ DictGet(val.v, KeyHtml, [t |-> "str", v |-> <<>>]).t = "str"

WellFormed(content) ==
    LET d == DecodeCache(content) IN
    IF d.ok /\ d.val.t = "arr" /\ \A k \in 1..Len(d.val.v) : IsLooseItem(d.val.v[k])
    THEN [ok |-> TRUE,
          items |-> [k \in 1..Len(d.val.v) |->
                        [field |-> DictGet(d.val.v[k].v, KeyField, JNone).v,
                         html |-> DictGet(d.val.v[k].v, KeyHtml,
                                          [t |-> "str", v |-> <<>>]).v]]]
    ELSE [ok |-> FALSE, items |-> <<>>]

RestoredWellFormed(k) ==
    /\ hist[k].op = "restore"
    /\ Supported /\ HasCache
    /\ WellFormed(hist[k].pre[CacheIndex]).ok

\* C6: restoring a well-formed payload raises nothing, skips each item
\* whose field is not in the schema without creating or changing a field,
\* gives every field an item names that item's html (the empty text when
\* html is missing), and clears the Cache field.
UnknownFieldDrop ==
    \A k \in LatestRun :
        RestoredWellFormed(k) =>
            LET items == WellFormed(hist[k].pre[CacheIndex]).items IN
            /\ ~Raised(hist[k].steps)
            /\ Completed(hist[k].steps)
            /\ Len(After(k)) = Len(hist[k].pre)
            /\ After(k)[CacheIndex] = <<>>
            /\ \A i \in 1..Len(field_names) :
                  field_names[i] # Cache =>
                     After(k)[i] =
                        IF \E j \in 1..Len(items) : items[j].field = field_names[i]
                        THEN LastHtml(items, field_names[i])
                        ELSE hist[k].pre[i]

\* A restore ran on the payload that names Front, the unknown field Back,
\* and Image without html, while Image was non-blank.
UnknownFieldWitness ==
    /\ hist # <<>>
    /\ RestoredWellFormed(Len(hist))
    /\ hist[Len(hist)].pre[CacheIndex] = PayloadUnknown
    /\ NonBlank(hist[Len(hist)].pre[FieldIndex(Image)])

(***************************************************************************)
(* C7.  Restore, then backup, then restore.                                *)
(***************************************************************************)

\* C7 as claimed: for every payload held in the Cache field, restoring it
\* and then backing up again with no edit in between writes a payload whose
\* set of (field, content) pairs equals that of the original payload.
RestoreBackupKeepsPayload ==
    \A k \in LatestPair :
        (/\ hist[k].op = "restore" /\ hist[k + 1].op = "backup"
         /\ Supported /\ HasCache
         /\ PayloadItems(hist[k].pre[CacheIndex]).ok) =>
            /\ PayloadItems(After(k + 1)[CacheIndex]).ok
            /\ ItemSet(PayloadItems(After(k + 1)[CacheIndex]).items) =
                 ItemSet(PayloadItems(hist[k].pre[CacheIndex]).items)

\* C7 as amended: for every payload that a completed backup has just
\* written into the Cache field (no edit since that backup), restoring it
\* and then backing up again with no edit in between leaves the record,
\* the Cache payload included, exactly as the first backup left it, and a
\* second restore yields the same record as the first.
RestoreBackupOfBackupPayload ==
    \A k \in 1..(Len(hist) - 1) :
        (hist[k].op = "restore" /\ hist[k].fresh /\ hist[k + 1].op = "backup") =>
            /\ After(k + 1) = hist[k].pre
            /\ (k + 2 <= Len(hist) /\ hist[k + 2].op = "restore") =>
                  After(k + 2) = After(k)

\* Restore, backup and restore again ran on the payload of a backup that
\* captured two fields.
RestoreBackupWitness ==
    /\ Len(hist) = 3
    /\ hist[1].op = "restore" /\ hist[1].fresh
    /\ hist[2].op = "backup" /\ hist[3].op = "restore"
    /\ Cardinality(Capturable(note)) = 2
    /\ note[CacheIndex] = <<>>

(***************************************************************************)
(* C8.  Guarded no-op.                                                     *)
(***************************************************************************)

\* The cases of C8: the note type is not enabled, the schema has no Cache
\* field, a backup finds every eligible field blank, a restore finds the
\* Cache field blank.
GuardedCase(e) ==
    /\ has_note
    /\ \/ ~InList(notetype, enabled_notetypes)
       \/ ~HasCache
       \/ e.op = "backup" /\ Capturable(e.pre) = {}
       \/ e.op = "restore" /\ ~NonBlank(e.pre[CacheIndex])

\* C8: in each of these cases the run leaves every field unchanged and
\* persists nothing, and it notifies the user exactly when the note type
\* is not enabled.
GuardedNoOp ==
    \A k \in LatestRun :
        GuardedCase(hist[k]) =>
            /\ After(k) = hist[k].pre
            /\ ~HasStep(hist[k].steps, "update_note")
            /\ (IF k < Len(hist) THEN hist[k + 1].col ELSE col_note) = hist[k].col
            /\ HasStep(hist[k].steps, "showInfo") <=> ~InList(notetype, enabled_notetypes)

\* A backup ran on an enabled record with a Cache field whose eligible
\* fields were all blank (one of them whitespace) while its first field and
\* its ignored Image field were not.
GuardedNoOpWitness ==
    /\ hist # <<>>
    /\ hist[Len(hist)].op = "backup"
    /\ Supported /\ HasCache /\ ~addMode
    /\ Capturable(hist[Len(hist)].pre) = {}
    /\ hist[Len(hist)].pre[FieldIndex(Front)] = <<32>>
    /\ NonBlank(hist[Len(hist)].pre[1])
    /\ NonBlank(hist[Len(hist)].pre[FieldIndex(Image)])

\* The other cases of C8 happen too: a run on a note type that is not
\* enabled, a run on a schema without Cache, a restore of a blank Cache.
GuardedUnsupportedReached ==
    /\ hist # <<>> /\ has_note /\ ~InList(notetype, enabled_notetypes)
    /\ \E i \in 1..Len(note) : NonBlank(note[i])

GuardedNoCacheReached ==
    /\ hist # <<>> /\ Supported /\ ~HasCache
    /\ \E i \in 2..Len(note) : NonBlank(note[i])

GuardedBlankCacheReached ==
    /\ hist # <<>> /\ Supported /\ HasCache
    /\ hist[Len(hist)].op = "restore"
    /\ hist[Len(hist)].pre[CacheIndex] = <<32>>

(***************************************************************************)
(* C9.  No data loss across sequences.                                     *)
(***************************************************************************)

\* The cache content is a payload that a backup wrote: it is a payload and
\* none of the contents the user enters.
WrittenByBackup(content) ==
    /\ content \notin (Contents \cup CacheContents)
    /\ PayloadItems(content).ok

\* An item of a payload is recoverable from a record: it is in the record's
\* Cache payload, or its field holds its content.
Recoverable(item, rec) ==
    \/ /\ PayloadItems(rec[CacheIndex]).ok
       /\ item \in ItemSet(PayloadItems(rec[CacheIndex]).items)
    \/ /\ InList(item.field, field_names)
       /\ rec[FieldIndex(item.field)] = item.html

\* C9: whenever backup runs while the Cache field still holds the payload
\* of an earlier backup, every item of that payload is recoverable
\* afterwards.
NoDataLoss ==
    \A k \in LatestRun :
        (/\ hist[k].op = "backup" /\ Supported /\ HasCache
         /\ WrittenByBackup(hist[k].pre[CacheIndex])) =>
            \A item \in ItemSet(PayloadItems(hist[k].pre[CacheIndex]).items) :
                Recoverable(item, After(k))

(***************************************************************************)
(* C10.  Persistence ordering.                                             *)
(***************************************************************************)

\* Within one run: update_note happens at most once, after every write of
\* the run, outside add mode, and only on a run that completes.
PersistsLast(steps) ==
    /\ Cardinality({j \in 1..Len(steps) : steps[j].e = "update_note"}) <= 1
    /\ \A j \in 1..Len(steps) :
          steps[j].e = "update_note" =>
             /\ \A m \in (j + 1)..Len(steps) : steps[m].e # "set"
             /\ ~addMode
             /\ Completed(steps)
             /\ ~Raised(steps)

\* The per-run part of C10.
PersistencePerRun == \A k \in 1..Len(hist) : PersistsLast(hist[k].steps)

\* A run stopped by an exception after it had written a field.
Aborted(k) == Raised(hist[k].steps) /\ Wrote(hist[k].steps)

\* C10: in every run update_note happens at most once, after every write,
\* never in add mode and never on a run that returned early or raised; so
\* the stored note never receives a record on which only part of one
\* operation has been applied.
PersistenceOrdering ==
    /\ PersistencePerRun
    /\ \A k \in 1..Len(hist) : \A m \in (k + 1)..Len(hist) :
          Aborted(k) => ~HasStep(hist[m].steps, "update_note")

====
